---- MODULE Spec2Model ----
(***************************************************************************)
(* Model of the web-collector template clustering engine:                  *)
(*   - SimilarityAnalyzer (similarity.py): the four sub-metrics and the    *)
(*     weighted total, as pure operators over feature vectors;             *)
(*   - Database (database.py): the websites and templates tables and the   *)
(*     SQL statements of each method, one step per committed transaction   *)
(*     or autocommit read;                                                 *)
(*   - WebTemplateBot.handle_message (bot.py): one coroutine per incoming  *)
(*     message, interleaved with the others at its awaits.                 *)
(*                                                                         *)
(* Scores are Python floats in the source.  They are modelled as exact     *)
(* fractions <<numerator, denominator>> in lowest terms; the weights       *)
(* 0.5/0.3/0.1/0.1 are tenths and the threshold is in hundredths.          *)
(***************************************************************************)
EXTENDS Integers, Sequences, FiniteSets, TLC

(***************************************************************************)
(* Bounds of the model.                                                    *)
(***************************************************************************)
MaxNodes    == 3   \* nodes of a generated DOM tree
MaxClasses  == 2   \* length of a generated css_classes list
MaxQueries  == 2   \* length of a generated mediaQueries list
MaxHandlers == 2   \* handle_message coroutines in flight
MaxFailures == 1   \* store operations that fail in one behaviour

(***************************************************************************)
(* Fractions.                                                              *)
(***************************************************************************)
RECURSIVE GCD(_, _)
GCD(x, y) == IF y = 0 THEN x ELSE GCD(y, x % y)

Frac(n, d) == IF n = 0 THEN <<0, 1>> ELSE <<n \div GCD(n, d), d \div GCD(n, d)>>

Zero == <<0, 1>>
One  == <<1, 1>>

FLe(x, y) == x[1] * y[2] <= y[1] * x[2]
FLt(x, y) == x[1] * y[2] <  y[1] * x[2]

Max(x, y) == IF x >= y THEN x ELSE y
Min(x, y) == IF x <= y THEN x ELSE y
Abs(x)    == IF x >= 0 THEN x ELSE 0 - x

Range(s) == {s[i] : i \in 1..Len(s)}

(***************************************************************************)
(* Strings that the code inspects character by character (class names)     *)
(* are sequences of one-character strings.                                 *)
(***************************************************************************)
\* str.lower() on one character
LowerChar(c) ==
    CASE c = "A" -> "a"
      [] c = "B" -> "b"
      [] c = "C" -> "c"
      [] c = "D" -> "d"
      [] c = "E" -> "e"
      [] c = "F" -> "f"
      [] c = "G" -> "g"
      [] c = "H" -> "h"
      [] c = "I" -> "i"
      [] c = "J" -> "j"
      [] c = "K" -> "k"
      [] c = "L" -> "l"
      [] c = "M" -> "m"
      [] c = "N" -> "n"
      [] c = "O" -> "o"
      [] c = "P" -> "p"
      [] c = "Q" -> "q"
      [] c = "R" -> "r"
      [] c = "S" -> "s"
      [] c = "T" -> "t"
      [] c = "U" -> "u"
      [] c = "V" -> "v"
      [] c = "W" -> "w"
      [] c = "X" -> "x"
      [] c = "Y" -> "y"
      [] c = "Z" -> "z"
      [] OTHER -> c

\* str.lower()
Lower(s) == [i \in 1..Len(s) |-> LowerChar(s[i])]

\* keyword in s
Contains(s, k) ==
    \E i \in 1..(Len(s) - Len(k) + 1) : \A j \in 1..Len(k) : s[i + j - 1] = k[j]

kw_container == <<"c","o","n","t","a","i","n","e","r">>
kw_wrapper   == <<"w","r","a","p","p","e","r">>
kw_header    == <<"h","e","a","d","e","r">>
kw_footer    == <<"f","o","o","t","e","r">>
kw_nav       == <<"n","a","v">>
kw_sidebar   == <<"s","i","d","e","b","a","r">>
kw_main      == <<"m","a","i","n">>
kw_content   == <<"c","o","n","t","e","n","t">>
kw_grid      == <<"g","r","i","d">>
kw_flex      == <<"f","l","e","x">>
kw_row       == <<"r","o","w">>
kw_col       == <<"c","o","l">>
kw_section   == <<"s","e","c","t","i","o","n">>

layout_keywords ==
    {kw_container, kw_wrapper, kw_header, kw_footer, kw_nav, kw_sidebar,
     kw_main, kw_content, kw_grid, kw_flex, kw_row, kw_col, kw_section}

cls_container  == <<"c","o","n","t","a","i","n","e","r">>
cls_header_bar == <<"h","e","a","d","e","r","-","b","a","r">>
cls_footer_bar == <<"f","o","o","t","e","r","-","b","a","r">>
cls_btn        == <<"b","t","n">>
cls_Nav        == <<"N","a","v">>

(***************************************************************************)
(* DOM trees: [tag, children].  NoneTag stands for a node whose tag is     *)
(* Python None (tagName undefined in the page).  EmptyDict is the dict {}, *)
(* which has neither key.                                                  *)
(***************************************************************************)
NoneTag == "<None>"

EmptyDict == <<>>

\* isinstance(node, dict) and 'tag' in node
IsNode(node) == "tag" \in DOMAIN node

Node(t, cs) == [tag |-> t, children |-> cs]
Leaf(t)     == Node(t, <<>>)

important_tags == {"div", "section", "main", "header", "footer", "nav", "aside"}

\* similarity.py traverse(): one token (depth, tag) per important node, in
\* document order; the f-string "{depth}:{tag}" is the pair <<depth, tag>>.
RECURSIVE traverse(_, _)
RECURSIVE traverse_children(_, _, _)
\* lines 68-71 with the loop over the children inside the if
traverse_skip_subtree(node, depth) ==
    IF ~IsNode(node) THEN <<>>
    ELSE IF node.tag \in important_tags
         THEN <<<<depth, node.tag>>>> \o traverse_children(node.children, 1, depth + 1)
         ELSE <<>>

traverse(node, depth) ==
    IF ~IsNode(node) THEN <<>>
    ELSE (IF node.tag \in important_tags THEN <<<<depth, node.tag>>>> ELSE <<>>)
         \o traverse_children(node.children, 1, depth + 1)
traverse_children(cs, i, depth) ==
    IF i > Len(cs) THEN <<>>
    ELSE traverse(cs[i], depth) \o traverse_children(cs, i + 1, depth)

get_layout_sequence(dom) == traverse(dom, 0)

\* line 90 taking only matrix[i-1][j]
RECURSIVE matrix_upper_only(_, _, _, _)
matrix_upper_only(seq1, seq2, i, j) ==
    IF i = 0 \/ j = 0 THEN 0
    ELSE IF seq1[i] = seq2[j]
         THEN matrix_upper_only(seq1, seq2, i - 1, j - 1) + 1
         ELSE matrix_upper_only(seq1, seq2, i - 1, j)

\* the dynamic program of _calculate_dom_similarity: matrix[i][j]
RECURSIVE matrix(_, _, _, _)
matrix(seq1, seq2, i, j) ==
    IF i = 0 \/ j = 0 THEN 0
    ELSE IF seq1[i] = seq2[j]
         THEN matrix(seq1, seq2, i - 1, j - 1) + 1
         ELSE Max(matrix(seq1, seq2, i - 1, j), matrix(seq1, seq2, i, j - 1))

\* line 93 with 1 instead of 0 for two empty sequences
calculate_dom_similarity_empty_one(dom1, dom2) ==
    LET seq1 == get_layout_sequence(dom1)
        seq2 == get_layout_sequence(dom2)
        lcs_length == matrix(seq1, seq2, Len(seq1), Len(seq2))
    IN  IF Len(seq1) + Len(seq2) > 0
        THEN Frac(2 * lcs_length, Len(seq1) + Len(seq2))
        ELSE One

\* line 93 without the factor 2
calculate_dom_similarity_half(dom1, dom2) ==
    LET seq1 == get_layout_sequence(dom1)
        seq2 == get_layout_sequence(dom2)
        lcs_length == matrix(seq1, seq2, Len(seq1), Len(seq2))
    IN  IF Len(seq1) + Len(seq2) > 0
        THEN Frac(lcs_length, Len(seq1) + Len(seq2))
        ELSE Zero

calculate_dom_similarity(dom1, dom2) ==
    LET seq1 == get_layout_sequence(dom1)
        seq2 == get_layout_sequence(dom2)
        lcs_length == matrix(seq1, seq2, Len(seq1), Len(seq2))
    IN  IF Len(seq1) + Len(seq2) > 0
        THEN Frac(2 * lcs_length, Len(seq1) + Len(seq2))
        ELSE Zero

filter_layout_classes(classes) ==
    {cls \in Range(classes) :
        \E lowered \in {Lower(cls)} :
            \E keyword \in layout_keywords : Contains(lowered, keyword)}

\* line 121 dividing by the size of the smaller set
calculate_css_similarity_overlap(classes1, classes2) ==
    LET layout_classes1 == filter_layout_classes(classes1)
        layout_classes2 == filter_layout_classes(classes2)
        intersection == Cardinality(layout_classes1 \cap layout_classes2)
        smaller == Min(Cardinality(layout_classes1), Cardinality(layout_classes2))
    IN  IF layout_classes1 = {} \/ layout_classes2 = {}
        THEN Zero
        ELSE Frac(intersection, smaller)

\* lines 114-116 with two empty sets counted as equal
calculate_css_similarity_empty_equal(classes1, classes2) ==
    LET layout_classes1 == filter_layout_classes(classes1)
        layout_classes2 == filter_layout_classes(classes2)
        intersection == Cardinality(layout_classes1 \cap layout_classes2)
        union == Cardinality(layout_classes1 \cup layout_classes2)
    IN  IF layout_classes1 = {} /\ layout_classes2 = {}
        THEN One
        ELSE IF union > 0 THEN Frac(intersection, union) ELSE Zero

calculate_css_similarity(classes1, classes2) ==
    LET layout_classes1 == filter_layout_classes(classes1)
        layout_classes2 == filter_layout_classes(classes2)
        intersection == Cardinality(layout_classes1 \cap layout_classes2)
        union == Cardinality(layout_classes1 \cup layout_classes2)
    IN  IF layout_classes1 = {} \/ layout_classes2 = {}
        THEN Zero
        ELSE IF union > 0 THEN Frac(intersection, union) ELSE Zero

(***************************************************************************)
(* Media queries are token sequences; a token is [k, n] with k the text    *)
(* of the token ("num" for a run of digits, whose value is n).             *)
(***************************************************************************)
Tok(k)  == [k |-> k, n |-> 0]
Num(v)  == [k |-> "num", n |-> v]

\* position after the whitespace run starting at i  (\s*)
RECURSIVE SkipSpace(_, _)
SkipSpace(q, i) ==
    IF i <= Len(q) /\ q[i].k = " " THEN SkipSpace(q, i + 1) ELSE i

\* re.findall(r'min-width:\s*(\d+)px', query), as a set
FindAll(q) ==
    {q[SkipSpace(q, i + 1)].n : i \in
        {i \in 1..Len(q) :
            /\ q[i].k = "min-width:"
            /\ SkipSpace(q, i + 1) + 1 <= Len(q)
            /\ q[SkipSpace(q, i + 1)].k = "num"
            /\ q[SkipSpace(q, i + 1) + 1].k = "px"}}

extract_breakpoints(queries) ==
    UNION {FindAll(queries[i]) : i \in 1..Len(queries)}

\* line 158 with < instead of <=
similar_breakpoints_strict(breakpoints1, breakpoints2) ==
    Cardinality({bp1 \in breakpoints1 :
                    \E bp2 \in breakpoints2 : Abs(bp1 - bp2) < 100})

\* the loop of lines 156-161 without its break
similar_breakpoints_nobreak(breakpoints1, breakpoints2) ==
    Cardinality({p \in breakpoints1 \X breakpoints2 : Abs(p[1] - p[2]) <= 100})

similar_breakpoints(breakpoints1, breakpoints2) ==
    Cardinality({bp1 \in breakpoints1 :
                    \E bp2 \in breakpoints2 : Abs(bp1 - bp2) <= 100})

\* resp is [truthy, mediaQueries]; truthy is FALSE for {} and None
calculate_responsive_similarity(resp1, resp2) ==
    IF ~resp1.truthy \/ ~resp2.truthy THEN Zero
    ELSE
    LET breakpoints1 == extract_breakpoints(resp1.mediaQueries)
        breakpoints2 == extract_breakpoints(resp2.mediaQueries)
    IN  IF breakpoints1 = {} \/ breakpoints2 = {} THEN Zero
        ELSE Frac(similar_breakpoints(breakpoints1, breakpoints2),
                  Max(Cardinality(breakpoints1), Cardinality(breakpoints2)))

determine_layout_type(node) ==
    CASE node.tag = "header"  -> "header"
      [] node.tag = "footer"  -> "footer"
      [] node.tag = "nav"     -> "navigation"
      [] node.tag = "main"    -> "main-content"
      [] node.tag = "aside"   -> "sidebar"
      [] node.tag = "section" -> "section"
      [] node.tag = "article" -> "article"
      [] node.tag = "div"     -> "container"
      [] OTHER                -> "other"

RECURSIVE analyze_node(_, _)
RECURSIVE analyze_children(_, _, _)
analyze_node(node, parent_type) ==
    IF ~IsNode(node) THEN <<>>
    ELSE <<<<parent_type, determine_layout_type(node), Len(node.children)>>>>
         \o analyze_children(node.children, 1, determine_layout_type(node))
analyze_children(cs, i, parent_type) ==
    IF i > Len(cs) THEN <<>>
    ELSE analyze_node(cs[i], parent_type) \o analyze_children(cs, i + 1, parent_type)

get_layout_structure(dom) == analyze_node(dom, "root")

\* lines 193-195 without the comparison of the child counts
compare_structures_any_children(struct1, struct2) ==
    LET min_len == Min(Len(struct1), Len(struct2))
        max_len == Max(Len(struct1), Len(struct2))
        matches == Cardinality({i \in 1..min_len :
                        /\ struct1[i][1] = struct2[i][1]
                        /\ struct1[i][2] = struct2[i][2]})
    IN  IF max_len > 0 THEN Frac(matches, max_len) ELSE Zero

compare_structures(struct1, struct2) ==
    LET min_len == Min(Len(struct1), Len(struct2))
        max_len == Max(Len(struct1), Len(struct2))
        matches == Cardinality({i \in 1..min_len :
                        /\ struct1[i][1] = struct2[i][1]
                        /\ struct1[i][2] = struct2[i][2]
                        /\ Abs(struct1[i][3] - struct2[i][3]) <= 2})
    IN  IF max_len > 0 THEN Frac(matches, max_len) ELSE Zero

calculate_layout_similarity(dom1, dom2) ==
    compare_structures(get_layout_structure(dom1), get_layout_structure(dom2))

\* node.get('tag', '').lower() raises AttributeError when the tag is None
RECURSIVE HasNoneTag(_)
HasNoneTag(node) ==
    /\ IsNode(node)
    /\ \/ node.tag = NoneTag
       \/ \E i \in 1..Len(node.children) : HasNoneTag(node.children[i])

\* an exception escapes one of the four sub-metrics
Raises(site1, site2) == HasNoneTag(site1.dom_structure) \/ HasNoneTag(site2.dom_structure)

\* weights 0.5, 0.3, 0.1, 0.1 in tenths
weights == [dom_similarity |-> 5, css_similarity |-> 3,
            responsive_similarity |-> 1, layout_similarity |-> 1]

similarities(site1, site2) ==
    [dom_similarity        |-> calculate_dom_similarity(site1.dom_structure, site2.dom_structure),
     css_similarity        |-> calculate_css_similarity(site1.css_classes, site2.css_classes),
     responsive_similarity |-> calculate_responsive_similarity(site1.responsive_features,
                                                               site2.responsive_features),
     layout_similarity     |-> calculate_layout_similarity(site1.dom_structure, site2.dom_structure)]

total_similarity(s) ==
    LET d == s.dom_similarity
        c == s.css_similarity
        r == s.responsive_similarity
        l == s.layout_similarity
    IN  Frac(  weights.dom_similarity        * d[1] * c[2] * r[2] * l[2]
             + weights.css_similarity        * c[1] * d[2] * r[2] * l[2]
             + weights.responsive_similarity * r[1] * d[2] * c[2] * l[2]
             + weights.layout_similarity     * l[1] * d[2] * c[2] * r[2],
             10 * d[2] * c[2] * r[2] * l[2])

NoSimilarities ==
    [dom_similarity |-> Zero, css_similarity |-> Zero,
     responsive_similarity |-> Zero, layout_similarity |-> Zero]

\* calculate_similarity, with the sub-metrics it computed on the way:
\* [raised, similarities, total].  The except clause returns 0.0.
calculate_similarity(site1, site2) ==
    IF Raises(site1, site2)
    THEN [raised |-> TRUE, similarities |-> NoSimilarities, total |-> Zero]
    ELSE LET s == similarities(site1, site2)
         IN  [raised |-> FALSE, similarities |-> s, total |-> total_similarity(s)]


(***************************************************************************)
(* Feature vectors: the fields of WebsiteFeatures that the scorer and the  *)
(* store read.  The remaining fields (js_libraries, color_scheme, fonts,   *)
(* performance_metrics, timestamps) do not influence any decision.         *)
(***************************************************************************)
WebsiteFeatures(url, dom, css, resp) ==
    [url |-> url, dom_structure |-> dom, css_classes |-> css, responsive_features |-> resp]

Resp(queries) == [truthy |-> TRUE, mediaQueries |-> queries]
EmptyResp     == [truthy |-> FALSE, mediaQueries |-> <<>>]

MinWidth(v)    == <<Tok("("), Tok("min-width:"), Tok(" "), Num(v), Tok("px"), Tok(")")>>
MinWidthEm(v)  == <<Tok("("), Tok("min-width:"), Num(v), Tok("em"), Tok(")")>>
MaxWidth(v)    == <<Tok("("), Tok("max-width:"), Tok(" "), Num(v), Tok("px"), Tok(")")>>

\* generated inputs of the scorer
Tags == {"div", "span"}

RECURSIVE Trees(_)
RECURSIVE Forests(_)
\* the DOM trees with exactly n nodes
Trees(n) == {Node(t, cs) : t \in Tags, cs \in Forests(n - 1)}
\* the sequences of trees with n nodes in total
Forests(n) ==
    IF n = 0 THEN {<<>>}
    ELSE UNION {{<<t>> \o f : t \in Trees(j), f \in Forests(n - j)} : j \in 1..n}

MalformedDoms == {Leaf(NoneTag), Node("div", <<Leaf("div"), Leaf(NoneTag)>>)}

\* the tree of the example scenario, and a root with three children
ExampleDom == Node("div", <<Leaf("header"), Node("main", <<Leaf("section")>>)>>)
WideDom    == Node("div", <<Leaf("div"), Leaf("div"), Leaf("div")>>)

Doms == UNION {Trees(n) : n \in 1..MaxNodes} \cup MalformedDoms \cup {ExampleDom, WideDom}

SeqsUpTo(S, n) == UNION {[1..k -> S] : k \in 0..n}

ClassNames == {cls_container, cls_header_bar, cls_btn}
CssLists   == SeqsUpTo(ClassNames, MaxClasses)

QuerySet == {MinWidth(700), MinWidth(768), MinWidth(800), MinWidth(1024), MaxWidth(600)}
RespSet  == {EmptyResp} \cup {Resp(q) : q \in SeqsUpTo(QuerySet, MaxQueries)}

BaseDom  == Node("div", <<Leaf("div")>>)
BaseCss  == <<cls_container>>
BaseResp == Resp(<<MinWidth(768)>>)

\* the feature vectors with nothing in them: the DOM is {} or the bare
\* body that _collect_partial_features falls back to, there is no class and
\* no media query
EmptyDoms == {EmptyDict, Leaf("body")}

EmptyFeatureSet ==
    {WebsiteFeatures("u", d, <<>>, r) : d \in EmptyDoms, r \in {EmptyResp, Resp(<<>>)}}

FeatureSet ==
       {WebsiteFeatures("u", d, BaseCss, BaseResp) : d \in Doms}
  \cup {WebsiteFeatures("u", BaseDom, c, BaseResp) : c \in CssLists}
  \cup {WebsiteFeatures("u", BaseDom, BaseCss, r) : r \in RespSet}
  \cup EmptyFeatureSet

(***************************************************************************)
(* The sites the bot is asked about.  A page is named; PageFeatures gives  *)
(* the feature vector that analyze_url extracts from it.  The state holds  *)
(* a feature vector as [url, page].                                        *)
(***************************************************************************)
PageNames == {"A", "A2", "B", "C", "Bad", "P", "P2", "Q"}

PageFeatures(page) ==
    CASE page = "A" ->
            WebsiteFeatures("", ExampleDom, <<cls_container, cls_header_bar>>,
                            Resp(<<MinWidth(768), MinWidth(1024)>>))
      \* same template as A, other breakpoint: total 1.0 against A
      [] page = "A2" ->
            WebsiteFeatures("", ExampleDom, <<cls_container, cls_header_bar>>,
                            Resp(<<MinWidth(780), MinWidth(1024)>>))
      \* the second site of the example scenario: total 0.8 against A
      [] page = "B" ->
            WebsiteFeatures("", ExampleDom, <<cls_container, cls_footer_bar>>,
                            Resp(<<MinWidth(780), MinWidth(1024)>>))
      \* an unrelated page: total 0 against the others
      [] page = "C" ->
            WebsiteFeatures("", Leaf("span"), <<cls_btn>>, Resp(<<>>))
      \* a page one of whose nodes has no tag name
      [] page = "Bad" ->
            WebsiteFeatures("", Node("div", <<Leaf(NoneTag)>>), <<cls_container>>,
                            Resp(<<MinWidth(768)>>))
      \* three bare pages: Q scores 0.5 * 4/5 = 0.4 against P and against P2,
      \* P and P2 score 0.5 * 4/6 against each other
      [] page = "P" ->
            WebsiteFeatures("", Node("section", <<Leaf("div"), Leaf("div")>>), <<cls_btn>>,
                            Resp(<<>>))
      [] page = "P2" ->
            WebsiteFeatures("", Node("main", <<Leaf("div"), Leaf("div")>>), <<cls_btn>>,
                            Resp(<<>>))
      [] page = "Q" ->
            WebsiteFeatures("", Node("span", <<Leaf("div"), Leaf("div")>>), <<cls_btn>>,
                            Resp(<<>>))

\* calculate_similarity on two feature vectors of the state
Similarity(site1, site2) ==
    calculate_similarity(PageFeatures(site1.page), PageFeatures(site2.page))

Features(url, page) == [url |-> url, page |-> page]

(***************************************************************************)
(* State.                                                                  *)
(***************************************************************************)
VARIABLES
    \* the arguments and results of the scorer when it is exercised alone
    site1, site2, simAB, simBA, simAA, spc,
    \* SimilarityAnalyzer.threshold, in hundredths
    threshold,
    \* the database: the two tables, their AUTOINCREMENT counters, the clock
    websites, templates, seq_websites, seq_templates, now,
    \* one handle_message coroutine per handler: position and locals
    pc, message, features, website_id, scanned, max_similarity,
    similar_template_id, count, row_features,
    \* what the coroutine replied: outcome, template id shown, error text
    outcome, replied_template, error,
    \* store operations that have failed so far
    failures

scorerVars  == <<site1, site2, simAB, simBA, simAA, spc>>
storeVars   == <<websites, templates, seq_websites, seq_templates>>
localVars   == <<message, features, website_id, scanned, max_similarity,
                 similar_template_id, count, row_features>>
replyVars   == <<outcome, replied_template, error>>
vars == <<scorerVars, threshold, storeVars, now, pc, localVars, replyVars, failures>>

Handlers == 1..MaxHandlers

NULL == 0    \* SQL NULL / Python None for an id; AUTOINCREMENT ids start at 1

\* the text of a message as urlparse splits it
Message(scheme, netloc) == [scheme |-> scheme, netloc |-> netloc]
U1     == Message("https", "a.example")
U2     == Message("https", "b.example")
U3     == Message("https", "c.example")
U4     == Message("https", "d.example")
U5     == Message("https", "e.example")
U6     == Message("https", "down.example")
U7     == Message("https", "p.example")
U8     == Message("https", "p2.example")
U9     == Message("https", "q.example")
U10    == Message("https", "mirror.p.example")
U11    == Message("https", "mirror.a.example")
NotUrl == Message("", "")
NoHost == Message("https", "")
Messages == {U1, U2, U3, U4, U5, U6, NotUrl, NoHost}

\* WebCollector.analyze_url: the features of the page the site serves, or
\* None (here NoFeatures) when the site cannot be analyzed
NoFeatures == Features(NotUrl, "none")

analyze_url(url) ==
    CASE url = U1 -> Features(url, "A")
      [] url = U2 -> Features(url, "A2")
      [] url = U3 -> Features(url, "B")
      [] url = U4 -> Features(url, "C")
      [] url = U5 -> Features(url, "Bad")
      [] url = U7 -> Features(url, "P")
      [] url = U8 -> Features(url, "P2")
      [] url = U9 -> Features(url, "Q")
      [] url = U10 -> Features(url, "P")
      [] url = U11 -> Features(url, "A")
      [] OTHER    -> NoFeatures

\* SimilarityAnalyzer() default 0.4; config.yml default 0.85
Thresholds == {40, 85}

FeatureKeys ==
    {"url", "dom_structure", "css_classes", "js_libraries", "responsive_features",
     "color_scheme", "fonts", "performance_metrics", "created_at", "updated_at"}

\* json.dumps(features.to_dict()): the text stored in websites.features
json_dumps(f) == [wellformed |-> TRUE, keys |-> FeatureKeys, obj |-> f]

NoSite   == WebsiteFeatures("", Leaf("body"), <<>>, EmptyResp)
NoResult   == [raised |-> FALSE, similarities |-> NoSimilarities, total |-> Zero]

InitScorerOff ==
    /\ site1 = NoSite /\ site2 = NoSite
    /\ simAB = NoResult /\ simBA = NoResult /\ simAA = NoResult
    /\ spc = "off"

InitHandlers ==
    /\ pc = [h \in Handlers |-> "idle"]
    /\ message = [h \in Handlers |-> NotUrl]
    /\ features = [h \in Handlers |-> NoFeatures]
    /\ website_id = [h \in Handlers |-> NULL]
    /\ scanned = [h \in Handlers |-> <<>>]
    /\ max_similarity = [h \in Handlers |-> Zero]
    /\ similar_template_id = [h \in Handlers |-> NULL]
    /\ count = [h \in Handlers |-> 0]
    /\ row_features = [h \in Handlers |-> json_dumps(NoFeatures)]
    /\ outcome = [h \in Handlers |-> "none"]
    /\ replied_template = [h \in Handlers |-> NULL]
    /\ error = [h \in Handlers |-> ""]
    /\ failures = 0

\* Database.initialize on a fresh file: both tables empty
InitStore ==
    /\ websites = {}
    /\ templates = {}
    /\ seq_websites = 0
    /\ seq_templates = 0
    /\ now = 0

Init ==
    /\ InitScorerOff
    /\ threshold \in Thresholds
    /\ InitStore
    /\ InitHandlers

(***************************************************************************)
(* WebTemplateBot.handle_message, up to the first store operation.         *)
(***************************************************************************)
\* line 238 with the scheme alone
is_valid_url_scheme_only(url) == url.scheme # ""

is_valid_url(url) == url.scheme # "" /\ url.netloc # ""

\* the coroutine ends: the reply and nothing else
Finish(h, o, t, e) ==
    /\ pc' = [pc EXCEPT ![h] = "done"]
    /\ outcome' = [outcome EXCEPT ![h] = o]
    /\ replied_template' = [replied_template EXCEPT ![h] = t]
    /\ error' = [error EXCEPT ![h] = e]

\* an exception reaches the except clause of handle_message
Raise(h, e) == Finish(h, "error", NULL, e)

\* lines 109-127: validate the URL, then analyze_url returns None or features
receive(h, msgs) ==
    /\ pc[h] = "idle"
    /\ IF h = 1 THEN TRUE ELSE pc[h - 1] # "idle"
    /\ \E msg \in msgs :
        /\ message' = [message EXCEPT ![h] = msg]
        /\ IF ~is_valid_url(msg)
           THEN /\ Finish(h, "invalid", NULL, "")
                /\ UNCHANGED features
           ELSE IF analyze_url(msg) = NoFeatures
           THEN /\ Finish(h, "unanalyzable", NULL, "")
                /\ UNCHANGED features
           ELSE /\ features' = [features EXCEPT ![h] = analyze_url(msg)]
                /\ pc' = [pc EXCEPT ![h] = "add_website"]
                /\ UNCHANGED replyVars
    /\ UNCHANGED <<scorerVars, threshold, storeVars, now, failures,
                   website_id, scanned, max_similarity, similar_template_id,
                   count, row_features>>

receive_message(h) == receive(h, Messages)

(***************************************************************************)
(* Database.add_website: INSERT INTO websites ... ; commit.                *)
(***************************************************************************)
\* the websites table without its UNIQUE constraint
UrlTaken_unconstrained(url) == FALSE

\* url TEXT UNIQUE NOT NULL
UrlTaken(url) == \E w \in websites : w.url = url

add_website(h) ==
    /\ pc[h] = "add_website"
    /\ IF UrlTaken(message[h])
       THEN /\ Raise(h, "IntegrityError")
            /\ UNCHANGED <<storeVars, website_id>>
       ELSE /\ seq_websites' = seq_websites + 1
            /\ websites' = websites \cup
                 {[id |-> seq_websites + 1, url |-> message[h], template_id |-> NULL,
                   features |-> json_dumps(features[h]), last_updated_at |-> now]}
            /\ website_id' = [website_id EXCEPT ![h] = seq_websites + 1]
            /\ pc' = [pc EXCEPT ![h] = "get_all_templates"]
            /\ UNCHANGED <<templates, seq_templates, replyVars>>
    /\ UNCHANGED <<scorerVars, threshold, now, failures, message, features, scanned,
                   max_similarity, similar_template_id, count, row_features>>


(***************************************************************************)
(* Database.get_all_templates and the scan loop of handle_message.  The    *)
(* loop has no await: the read and the scan are one step.                  *)
(***************************************************************************)
\* SELECT MIN(id) FROM websites WHERE template_id IS NOT NULL GROUP BY template_id
MinIdRows ==
    {w \in websites :
        /\ w.template_id # NULL
        /\ \A v \in websites : v.template_id = w.template_id => w.id <= v.id}

\* SELECT t.id, w.features FROM templates t JOIN websites w ON w.template_id = t.id
\* WHERE w.id IN (...): the rows, as pairs <<t.id, w.features>>
TemplateRows ==
    {<<p[1].id, p[2].features>> :
        p \in {q \in templates \X MinIdRows : q[2].template_id = q[1].id}}

Perms(S) == {s \in [1..Cardinality(S) -> S] : Range(s) = S}

\* the lists get_all_templates can return: the query has no ORDER BY; a row
\* that json.loads rejects makes the method log the error and return []
get_all_templates ==
    IF \E r \in TemplateRows : ~r[2].wellformed
    THEN {<<>>}
    ELSE Perms(TemplateRows)

\* lines 141-143: fromisoformat of the two timestamps, WebsiteFeatures(**dict)
RebuildError(stored) ==
    IF "created_at" \notin stored.keys \/ "updated_at" \notin stored.keys
    THEN "KeyError"
    ELSE IF stored.keys # FeatureKeys THEN "TypeError" ELSE ""

\* the loop with >= in place of > at line 147
RECURSIVE scan_last_wins(_, _, _, _, _)
scan_last_wins(f, list, i, max, best) ==
    IF i > Len(list)
    THEN [raised |-> "", max_similarity |-> max, similar_template_id |-> best]
    ELSE IF RebuildError(list[i][2]) # ""
    THEN [raised |-> RebuildError(list[i][2]), max_similarity |-> max,
          similar_template_id |-> best]
    ELSE LET similarity == Similarity(f, list[i][2].obj).total
         IN  IF FLe(max, similarity)
             THEN scan_last_wins(f, list, i + 1, similarity, list[i][1])
             ELSE scan_last_wins(f, list, i + 1, max, best)

\* lines 136-149: the loop from position i on, with the running maximum
RECURSIVE scan(_, _, _, _, _)
scan(f, list, i, max, best) ==
    IF i > Len(list)
    THEN [raised |-> "", max_similarity |-> max, similar_template_id |-> best]
    ELSE IF RebuildError(list[i][2]) # ""
    THEN [raised |-> RebuildError(list[i][2]), max_similarity |-> max,
          similar_template_id |-> best]
    ELSE LET similarity == Similarity(f, list[i][2].obj).total
         IN  IF FLt(max, similarity)
             THEN scan(f, list, i + 1, similarity, list[i][1])
             ELSE scan(f, list, i + 1, max, best)

\* line 159 with > in place of >=
UseExisting_strict(max, best) == FLt(<<threshold, 100>>, max) /\ best # NULL

\* line 159 with the comparison the wrong way round and no test of the id
UseExisting_reversed(max, best) == FLe(max, <<threshold, 100>>)

\* line 159 without the comparison with the threshold
UseExisting_unchecked(max, best) == best # NULL

\* line 159: max_similarity >= self.analyzer.threshold and similar_template_id
UseExisting(max, best) == FLe(<<threshold, 100>>, max) /\ best # NULL

scan_templates(h) ==
    /\ pc[h] = "get_all_templates"
    /\ \E list \in get_all_templates :
        \E r \in {scan(features[h], list, 1, Zero, NULL)} :
            /\ scanned' = [scanned EXCEPT ![h] = list]
            /\ max_similarity' = [max_similarity EXCEPT ![h] = r.max_similarity]
            /\ similar_template_id' = [similar_template_id EXCEPT ![h] = r.similar_template_id]
            /\ IF r.raised # ""
               THEN Raise(h, r.raised)
               ELSE /\ pc' = [pc EXCEPT ![h] =
                               IF UseExisting(r.max_similarity, r.similar_template_id)
                               THEN "update_website_template"
                               ELSE "create_template_from_website"]
                    /\ UNCHANGED replyVars
    /\ UNCHANGED <<scorerVars, threshold, storeVars, now, failures, message, features,
                   website_id, count, row_features>>

\* get_all_templates fails in the store: it logs and returns [], the loop
\* body never runs
scan_templates_failed(h) ==
    /\ pc[h] = "get_all_templates"
    /\ failures < MaxFailures
    /\ failures' = failures + 1
    /\ scanned' = [scanned EXCEPT ![h] = <<>>]
    /\ pc' = [pc EXCEPT ![h] = "create_template_from_website"]
    /\ UNCHANGED <<scorerVars, threshold, storeVars, now, message, features,
                   website_id, max_similarity, similar_template_id, count,
                   row_features, replyVars>>

(***************************************************************************)
(* The AssignToExisting path: lines 161-164.                               *)
(***************************************************************************)
\* the UPDATE without its WHERE clause
update_website_template_all_rows(h) ==
    /\ pc[h] = "update_website_template"
    /\ websites' = {[w EXCEPT !.template_id = similar_template_id[h],
                              !.last_updated_at = now] : w \in websites}
    /\ pc' = [pc EXCEPT ![h] = "update_template_count"]
    /\ UNCHANGED <<scorerVars, threshold, templates, seq_websites, seq_templates, now,
                   failures, localVars, replyVars>>

\* UPDATE websites SET template_id = ?, last_updated_at = ? WHERE id = ? ; commit
update_website_template(h) ==
    /\ pc[h] = "update_website_template"
    /\ websites' = {IF w.id = website_id[h]
                    THEN [w EXCEPT !.template_id = similar_template_id[h],
                                   !.last_updated_at = now]
                    ELSE w : w \in websites}
    /\ pc' = [pc EXCEPT ![h] = "update_template_count"]
    /\ UNCHANGED <<scorerVars, threshold, templates, seq_websites, seq_templates, now,
                   failures, localVars, replyVars>>

\* SELECT COUNT(*) FROM websites WHERE template_id = ?  (autocommit read)
update_template_count_select(h) ==
    /\ pc[h] = "update_template_count"
    /\ count' = [count EXCEPT ![h] =
                    Cardinality({w \in websites : w.template_id = similar_template_id[h]})]
    /\ pc' = [pc EXCEPT ![h] = "update_template_count_commit"]
    /\ UNCHANGED <<scorerVars, threshold, storeVars, now, failures, message, features,
                   website_id, scanned, max_similarity, similar_template_id,
                   row_features, replyVars>>

\* UPDATE templates SET website_count = ? WHERE id = ? ; commit ; then the reply
update_template_count_commit(h) ==
    /\ pc[h] = "update_template_count_commit"
    /\ templates' = {IF t.id = similar_template_id[h]
                     THEN [t EXCEPT !.website_count = count[h]]
                     ELSE t : t \in templates}
    /\ Finish(h, "assigned", similar_template_id[h], "")
    /\ UNCHANGED <<scorerVars, threshold, websites, seq_websites, seq_templates, now,
                   failures, localVars>>

(***************************************************************************)
(* The CreateNew path: Database.create_template_from_website.              *)
(***************************************************************************)
\* SELECT features FROM websites WHERE id = ?  (autocommit read)
create_template_from_website_select(h) ==
    /\ pc[h] = "create_template_from_website"
    /\ IF \E w \in websites : w.id = website_id[h]
       THEN /\ row_features' = [row_features EXCEPT ![h] =
                    (CHOOSE w \in websites : w.id = website_id[h]).features]
            /\ pc' = [pc EXCEPT ![h] = "create_template_from_website_commit"]
            /\ UNCHANGED replyVars
       ELSE /\ Raise(h, "ValueError")
            /\ UNCHANGED row_features
    /\ UNCHANGED <<scorerVars, threshold, storeVars, now, failures, message, features,
                   website_id, scanned, max_similarity, similar_template_id, count>>

\* the UPDATE of lines 261-264 without the INSERT of lines 251-257
create_template_from_website_link_only(h) ==
    /\ pc[h] = "create_template_from_website_commit"
    /\ seq_templates' = seq_templates + 1
    /\ websites' = {IF w.id = website_id[h]
                    THEN [w EXCEPT !.template_id = seq_templates + 1]
                    ELSE w : w \in websites}
    /\ Finish(h, "created", seq_templates + 1, "")
    /\ UNCHANGED <<scorerVars, threshold, templates, seq_websites, now, failures, localVars>>

\* the INSERT committed on its own, and the UPDATE of the website row failing
create_template_from_website_insert_only(h) ==
    /\ pc[h] = "create_template_from_website_commit"
    /\ seq_templates' = seq_templates + 1
    /\ templates' = templates \cup
            {[id |-> seq_templates + 1, website_count |-> 1,
              feature_summary |-> row_features[h]]}
    /\ Raise(h, "OperationalError")
    /\ UNCHANGED <<scorerVars, threshold, websites, seq_websites, now, failures, localVars>>

\* the INSERT without a value for website_count, which then takes DEFAULT 0
create_template_from_website_default_count(h) ==
    /\ pc[h] = "create_template_from_website_commit"
    /\ seq_templates' = seq_templates + 1
    /\ templates' = templates \cup
            {[id |-> seq_templates + 1, website_count |-> 0,
              feature_summary |-> row_features[h]]}
    /\ websites' = {IF w.id = website_id[h]
                    THEN [w EXCEPT !.template_id = seq_templates + 1]
                    ELSE w : w \in websites}
    /\ Finish(h, "created", seq_templates + 1, "")
    /\ UNCHANGED <<scorerVars, threshold, seq_websites, now, failures, localVars>>

\* INSERT INTO templates (..., website_count, feature_summary, ...) VALUES (?, 1, ?, ?)
\* UPDATE websites SET template_id = ? WHERE id = ? ; commit ; then the reply
create_template_from_website_commit(h) ==
    /\ pc[h] = "create_template_from_website_commit"
    /\ seq_templates' = seq_templates + 1
    /\ templates' = templates \cup
            {[id |-> seq_templates + 1, website_count |-> 1,
              feature_summary |-> row_features[h]]}
    /\ websites' = {IF w.id = website_id[h]
                    THEN [w EXCEPT !.template_id = seq_templates + 1]
                    ELSE w : w \in websites}
    /\ Finish(h, "created", seq_templates + 1, "")
    /\ UNCHANGED <<scorerVars, threshold, seq_websites, now, failures, localVars>>

(***************************************************************************)
(* A store operation fails (disk error, database locked): the connection   *)
(* closes without commit, the method logs and re-raises.                   *)
(***************************************************************************)
RaisingSteps ==
    {"add_website", "update_website_template", "update_template_count",
     "update_template_count_commit", "create_template_from_website",
     "create_template_from_website_commit"}

store_fails(h) ==
    /\ pc[h] \in RaisingSteps
    /\ failures < MaxFailures
    /\ failures' = failures + 1
    /\ Raise(h, "OperationalError")
    /\ UNCHANGED <<scorerVars, threshold, storeVars, now, localVars>>

Next ==
    \E h \in Handlers :
        \/ receive_message(h)
        \/ add_website(h)
        \/ scan_templates(h)
        \/ scan_templates_failed(h)
        \/ update_website_template(h)
        \/ update_template_count_select(h)
        \/ update_template_count_commit(h)
        \/ create_template_from_website_select(h)
        \/ create_template_from_website_commit(h)
        \/ store_fails(h)

Spec == Init /\ [][Next]_vars


(***************************************************************************)
(* The scorer alone: calculate_similarity applied to a pair of generated   *)
(* feature vectors, to the swapped pair, and to the first vector and       *)
(* itself.                                                                 *)
(***************************************************************************)
InitScore ==
    /\ site1 \in FeatureSet
    /\ site2 \in FeatureSet
    /\ simAB = NoResult /\ simBA = NoResult /\ simAA = NoResult
    /\ spc = "start"
    /\ threshold = 40
    /\ InitStore
    /\ InitHandlers

calculate(a, b) ==
    /\ spc = "start"
    /\ simAB' = calculate_similarity(a, b)
    /\ spc' = "scored"
    /\ UNCHANGED <<site1, site2, simBA, simAA, threshold, storeVars, now, pc,
                   localVars, replyVars, failures>>

calculate_swapped(a, b) ==
    /\ spc = "scored"
    /\ simBA' = calculate_similarity(b, a)
    /\ spc' = "swapped"
    /\ UNCHANGED <<site1, site2, simAB, simAA, threshold, storeVars, now, pc,
                   localVars, replyVars, failures>>

calculate_self(a) ==
    /\ spc = "swapped"
    /\ simAA' = calculate_similarity(a, a)
    /\ spc' = "self"
    /\ UNCHANGED <<site1, site2, simAB, simBA, threshold, storeVars, now, pc,
                   localVars, replyVars, failures>>

NextScore ==
    \/ calculate(site1, site2)
    \/ calculate_swapped(site1, site2)
    \/ calculate_self(site1)

SpecScore == InitScore /\ [][NextScore]_vars

(***************************************************************************)
(* Properties of the scorer.                                               *)
(***************************************************************************)
InUnit(x) == FLe(Zero, x) /\ FLe(x, One)

WellFormed(site) == ~HasNoneTag(site.dom_structure)

\* C8: calculate_similarity is symmetric, and so is each of the four
\* sub-metrics.
C8_Symmetry ==
    spc \in {"swapped", "self"} =>
        /\ simAB.total = simBA.total
        /\ simAB.similarities = simBA.similarities

\* C9 as stated: calculate_similarity(a, a) = 1.0 for every feature vector a
\* none of whose structural fields (DOM tree, class list, media-query list)
\* is empty.
NonEmptyVector(site) ==
    /\ WellFormed(site)
    /\ site.css_classes # <<>>
    /\ site.responsive_features.truthy
    /\ site.responsive_features.mediaQueries # <<>>

C9_ReflexiveNonEmpty ==
    (spc = "self" /\ NonEmptyVector(site1)) => simAA.total = One

\* C9 amended: calculate_similarity(a, a) = 1.0 for every well-formed feature
\* vector a whose layout sequence, layout-class set and breakpoint set are
\* all non-empty.
NonEmptyViews(site) ==
    /\ WellFormed(site)
    /\ get_layout_sequence(site.dom_structure) # <<>>
    /\ filter_layout_classes(site.css_classes) # {}
    /\ site.responsive_features.truthy
    /\ extract_breakpoints(site.responsive_features.mediaQueries) # {}

C9_ReflexiveViews ==
    (spc = "self" /\ NonEmptyViews(site1)) => (simAA.total = One /\ ~simAA.raised)

C9_Witness ==
    /\ spc = "self"
    /\ NonEmptyViews(site1)
    /\ Len(get_layout_sequence(site1.dom_structure)) >= 2
    /\ simAA.total = One

\* C10: each sub-metric lies in [0,1], and the total, which is
\* 0.5*dom + 0.3*css + 0.1*responsive + 0.1*layout, lies in [0,1].
C10_Bounds ==
    spc # "start" =>
        /\ InUnit(simAB.similarities.dom_similarity)
        /\ InUnit(simAB.similarities.css_similarity)
        /\ InUnit(simAB.similarities.responsive_similarity)
        /\ InUnit(simAB.similarities.layout_similarity)
        /\ InUnit(simAB.total)
        /\ (~simAB.raised => simAB.total = total_similarity(simAB.similarities))

C10_Witness ==
    /\ spc = "scored"
    /\ ~simAB.raised
    /\ simAB.similarities.responsive_similarity = One
    /\ Cardinality(extract_breakpoints(site1.responsive_features.mediaQueries)) = 2
    /\ Cardinality(extract_breakpoints(site2.responsive_features.mediaQueries)) = 2
    /\ site1 # site2


(***************************************************************************)
(* The bot started on a database file that an earlier run left behind      *)
(* (initialize only does CREATE TABLE IF NOT EXISTS): one website with its *)
(* template.  Its stored features are intact, or lack the timestamps, or   *)
(* are not JSON.                                                           *)
(***************************************************************************)
U0 == Message("https", "old.example")

StoredKinds == {"intact", "no_timestamps", "not_json"}

StoredAs(kind, f) ==
    CASE kind = "intact"        -> json_dumps(f)
      [] kind = "no_timestamps" ->
            [wellformed |-> TRUE, keys |-> FeatureKeys \ {"created_at", "updated_at"}, obj |-> f]
      [] kind = "not_json"      ->
            [wellformed |-> FALSE, keys |-> {}, obj |-> f]

InitRestart ==
    /\ InitScorerOff
    /\ threshold \in Thresholds
    /\ \E kind \in StoredKinds :
        /\ websites = {[id |-> 1, url |-> U0, template_id |-> 1,
                        features |-> StoredAs(kind, Features(U0, "A")),
                        last_updated_at |-> 0]}
        /\ templates = {[id |-> 1, website_count |-> 1,
                         feature_summary |-> StoredAs(kind, Features(U0, "A"))]}
    /\ seq_websites = 1
    /\ seq_templates = 1
    /\ now = 0
    /\ InitHandlers

SpecRestart == InitRestart /\ [][Next]_vars

(***************************************************************************)
(* Properties of the classifications.                                      *)
(***************************************************************************)
Done(h) == pc[h] = "done"

Analyzed(h) == features[h] # NoFeatures

\* the website rows linked to template t
Linked(t) == {w \in websites : w.template_id = t}

\* the two feature vectors score at least the threshold against each other
SimilarSites(f, g) ==
    /\ FLe(<<threshold, 100>>, Similarity(f, g).total)
    /\ FLe(<<threshold, 100>>, Similarity(g, f).total)

\* C1: two concurrent classifications of two distinct URLs with similar
\* features, starting from an empty store, end with exactly one template
\* and both websites linked to it.
C1_OneCluster ==
    \A h1, h2 \in Handlers :
        ( /\ h1 # h2 /\ Done(h1) /\ Done(h2)
          /\ Analyzed(h1) /\ Analyzed(h2)
          /\ message[h1] # message[h2]
          /\ SimilarSites(features[h1], features[h2])
          /\ failures = 0
          /\ seq_websites = 2 )
        => /\ Cardinality(templates) = 1
           /\ \A w \in websites : \E t \in templates : w.template_id = t.id

\* C2: two classifications of the same URL both end without an error and
\* report the same template, whose member count grew by exactly 1.
C2_SameUrlSameTemplate ==
    \A h1, h2 \in Handlers :
        ( /\ h1 # h2 /\ Done(h1) /\ Done(h2)
          /\ Analyzed(h1) /\ Analyzed(h2)
          /\ message[h1] = message[h2]
          /\ failures = 0 )
        => /\ outcome[h1] \in {"assigned", "created"}
           /\ outcome[h2] \in {"assigned", "created"}
           /\ replied_template[h1] = replied_template[h2]
           /\ Cardinality({w \in websites : w.url = message[h1]}) = 1

\* C3: a classification whose URL already has a website record ends at
\* add_website without changing the store.
C3_DuplicateUrlLeavesStore ==
    [][\A h \in Handlers :
        ( /\ pc[h] = "add_website"
          /\ \E w \in websites : w.url = message[h]
          /\ pc'[h] # pc[h] )
        => /\ UNCHANGED storeVars
           /\ pc'[h] = "done"
           /\ outcome'[h] = "error"]_vars

C3_Witness ==
    \E h \in Handlers :
        /\ Done(h)
        /\ error[h] = "IntegrityError"
        /\ Cardinality({w \in websites : w.url = message[h]}) = 1

\* C4: in every state of the store each template's website_count is the
\* number of website rows linked to it, and is at least 1.
C4_CountIsMembers ==
    \A t \in templates :
        /\ t.website_count = Cardinality(Linked(t.id))
        /\ t.website_count >= 1

\* C5: a classification that fails on the AssignToExisting path leaves
\* neither the link nor the count change in the store.
C5_AssignAllOrNothing ==
    \A h \in Handlers :
        ( /\ Done(h)
          /\ outcome[h] = "error"
          /\ error[h] = "OperationalError"
          /\ website_id[h] # NULL
          /\ UseExisting(max_similarity[h], similar_template_id[h]) )
        => \A w \in websites : w.id = website_id[h] => w.template_id = NULL

\* C6: a stored template whose data is malformed never aborts the
\* classification of a new website: once the website record is stored and no
\* store operation fails, it ends assigned or with a new template.
C6_CorruptTemplateSkipped ==
    \A h \in Handlers :
        (Done(h) /\ website_id[h] # NULL /\ failures = 0)
        => outcome[h] \in {"assigned", "created"}

\* C7: the features get_all_templates returns for a template are those of
\* the website that founded it.
C7_RepresentativeIsFounder ==
    \A r \in TemplateRows :
        \A t \in templates : t.id = r[1] => r[2] = t.feature_summary

(***************************************************************************)
(* The bot after it has classified https://p.example on an empty store:    *)
(* website 1 founded template 1.  The next messages are about the bare     *)
(* pages.                                                                  *)
(***************************************************************************)
SeededMessages == {U7, U8, U9, U10}

InitSeeded ==
    /\ InitScorerOff
    /\ threshold \in Thresholds
    /\ websites = {[id |-> 1, url |-> U7, template_id |-> 1,
                    features |-> json_dumps(analyze_url(U7)), last_updated_at |-> 0]}
    /\ templates = {[id |-> 1, website_count |-> 1,
                     feature_summary |-> json_dumps(analyze_url(U7))]}
    /\ seq_websites = 1
    /\ seq_templates = 1
    /\ now = 0
    /\ InitHandlers

receive_message_seeded(h) == receive(h, SeededMessages)

NextSeeded ==
    \E h \in Handlers :
        \/ receive_message_seeded(h)
        \/ add_website(h)
        \/ scan_templates(h)
        \/ scan_templates_failed(h)
        \/ update_website_template(h)
        \/ update_template_count_select(h)
        \/ update_template_count_commit(h)
        \/ create_template_from_website_select(h)
        \/ create_template_from_website_commit(h)
        \/ store_fails(h)

SpecSeeded == InitSeeded /\ [][NextSeeded]_vars

(***************************************************************************)
(* Properties of the decision.                                             *)
(***************************************************************************)
\* the handler took the branch of lines 160-164
AssignPath(h) ==
    \/ pc[h] \in {"update_website_template", "update_template_count",
                  "update_template_count_commit"}
    \/ outcome[h] = "assigned"

\* the handler took the branch of lines 166-169
CreatePath(h) ==
    \/ pc[h] \in {"create_template_from_website", "create_template_from_website_commit"}
    \/ outcome[h] = "created"

\* the score of the handler's site against the i-th scanned template
Score(h, i) == Similarity(features[h], scanned[h][i][2].obj).total

\* the template the handler's website row is linked to
LinkOf(h) == {w.template_id : w \in {v \in websites : v.id = website_id[h]}}

\* C11: with exactly one template in the scanned list, a site whose score
\* against the representative is at least the threshold (in particular equal
\* to it) is assigned to that template, and a site whose score is below the
\* threshold gets a new template.
C11_ThresholdBoundary ==
    \A h \in Handlers :
        (Len(scanned[h]) = 1 /\ (AssignPath(h) \/ CreatePath(h))) =>
            IF FLe(<<threshold, 100>>, Score(h, 1))
            THEN /\ AssignPath(h)
                 /\ similar_template_id[h] = scanned[h][1][1]
                 /\ outcome[h] = "assigned" =>
                        /\ replied_template[h] = scanned[h][1][1]
                        /\ LinkOf(h) = {scanned[h][1][1]}
            ELSE /\ CreatePath(h)
                 /\ outcome[h] = "created" =>
                        /\ replied_template[h] # scanned[h][1][1]
                        /\ LinkOf(h) = {replied_template[h]}

C11_Witness ==
    \E h1, h2 \in Handlers :
        /\ Len(scanned[h1]) = 1 /\ Len(scanned[h2]) = 1
        /\ Score(h1, 1) = Frac(threshold, 100)
        /\ outcome[h1] = "assigned"
        /\ FLt(Score(h2, 1), <<threshold, 100>>)
        /\ outcome[h2] = "created"

\* the scores of the handler's site against the scanned list, in its order
Scores(h) == [i \in 1..Len(scanned[h]) |-> Score(h, i)]

\* position i holds the best of the scores sc and no earlier position does
FirstBest(sc, i) ==
    \A j \in 1..Len(sc) : FLe(sc[j], sc[i]) /\ (j < i => FLt(sc[j], sc[i]))

\* C12: when several scanned templates have the same best score, a
\* classification that assigns picks the one that comes first in the list
\* get_all_templates returned (whatever the ids); more generally the scan
\* keeps the first position of the best score whenever that score is
\* positive.
C12_FirstOfBestWins ==
    \A h \in Handlers :
        ((AssignPath(h) \/ CreatePath(h)) /\ scanned[h] # <<>>) =>
            \A sc \in {Scores(h)} : \A i \in 1..Len(sc) :
                FirstBest(sc, i) =>
                    /\ AssignPath(h) => similar_template_id[h] = scanned[h][i][1]
                    /\ FLt(Zero, sc[i]) =>
                            /\ similar_template_id[h] = scanned[h][i][1]
                            /\ max_similarity[h] = sc[i]
                    /\ outcome[h] = "assigned" => replied_template[h] = scanned[h][i][1]

C12_Witness ==
    \E h \in Handlers :
        /\ outcome[h] = "assigned"
        /\ Len(scanned[h]) = 2
        /\ Score(h, 1) = Score(h, 2)
        /\ scanned[h][1][1] > scanned[h][2][1]
        /\ replied_template[h] = scanned[h][1][1]

\* C13: a classification that assigns to template T scanned T with a score
\* of at least the threshold that no scanned template exceeds; and a
\* classification takes the CreateNew branch exactly when every scanned
\* template scores below the threshold.
C13_MaxScoreDecision ==
    \A h \in Handlers :
        (AssignPath(h) \/ CreatePath(h)) =>
            /\ AssignPath(h) =>
                \E i \in 1..Len(scanned[h]) :
                    /\ scanned[h][i][1] = similar_template_id[h]
                    /\ FLe(<<threshold, 100>>, Score(h, i))
                    /\ \A j \in 1..Len(scanned[h]) : FLe(Score(h, j), Score(h, i))
            /\ CreatePath(h) <=>
                \A i \in 1..Len(scanned[h]) : FLt(Score(h, i), <<threshold, 100>>)
            /\ outcome[h] = "assigned" => replied_template[h] = similar_template_id[h]
            /\ outcome[h] = "created" =>
                \A i \in 1..Len(scanned[h]) : replied_template[h] # scanned[h][i][1]

C13_Witness ==
    \E h1, h2 \in Handlers :
        /\ outcome[h1] = "created"
        /\ Len(scanned[h1]) = 1
        /\ FLt(Zero, Score(h1, 1))
        /\ outcome[h2] = "assigned"
        /\ Len(scanned[h2]) = 2
        /\ FLt(Score(h2, 1), Score(h2, 2))
        /\ replied_template[h2] = scanned[h2][2][1]

\* the handler has stored its website and is past line 133
Scanned(h) ==
    /\ website_id[h] # NULL
    /\ pc[h] \notin {"idle", "add_website", "get_all_templates"}

\* C14: a classification whose template list is empty never takes the
\* AssignToExisting branch, whatever the features and the threshold: it is
\* on the CreateNew branch or has created its template, unless a store
\* operation failed.
C14_EmptyListCreates ==
    \A h \in Handlers :
        (Scanned(h) /\ scanned[h] = <<>>) =>
            /\ ~AssignPath(h)
            /\ max_similarity[h] = Zero
            /\ similar_template_id[h] = NULL
            /\ \/ CreatePath(h)
               \/ failures > 0 /\ outcome[h] = "error" /\ error[h] = "OperationalError"
            /\ outcome[h] = "created" =>
                    \E t \in templates :
                        /\ t.id = replied_template[h]
                        /\ t.feature_summary = json_dumps(features[h])
                        /\ LinkOf(h) = {t.id}

C14_Witness ==
    \E h1, h2 \in Handlers :
        /\ outcome[h1] = "created" /\ scanned[h1] = <<>> /\ features[h1].page = "Bad"
        /\ outcome[h2] = "created" /\ scanned[h2] = <<>> /\ features[h2].page = "A"
        /\ threshold = 85

\* C15: on the CreateNew path the read of the site's row changes nothing,
\* and the commit adds exactly one template, with a fresh id, website_count 1
\* and the features of the new site, and links the site's website row to it;
\* every other template and website row is left as it was.
C15_CreateNewFrame ==
    [][\A h \in Handlers :
        /\ (pc[h] = "create_template_from_website" /\ pc'[h] # pc[h])
                => UNCHANGED storeVars
        /\ (pc[h] = "create_template_from_website_commit" /\ outcome'[h] = "created") =>
            /\ \E t \in templates' :
                /\ \A u \in templates : u.id # t.id
                /\ templates' = templates \cup {t}
                /\ t.website_count = 1
                /\ t.feature_summary = json_dumps(features[h])
                /\ t.id = replied_template'[h]
                /\ \E w \in websites :
                    /\ w.id = website_id[h]
                    /\ w.url = message[h]
                    /\ websites' = (websites \ {w}) \cup {[w EXCEPT !.template_id = t.id]}
            /\ seq_websites' = seq_websites]_vars

C15_Witness ==
    \E h \in Handlers :
        /\ outcome[h] = "created"
        /\ replied_template[h] = 2
        /\ \E t \in templates : t.id = 2 /\ t.website_count = 1
                                /\ t.feature_summary = json_dumps(features[h])
        /\ \E t \in templates : t.id = 1 /\ Linked(1) # {}
        /\ Linked(2) = {w \in websites : w.id = website_id[h]}
        /\ Cardinality(Linked(2)) = 1

\* C16: a website row has one template_id, and no step of any classification
\* changes a template_id that is set, nor removes the row; website ids stay
\* unique.
C16_AssignmentImmutable ==
    [][/\ \A w \in websites :
            w.template_id # NULL =>
                \E v \in websites' : v.id = w.id /\ v.template_id = w.template_id
       /\ \A v1, v2 \in websites' : v1.id = v2.id => v1 = v2]_vars

C16_Witness ==
    \E h1, h2 \in Handlers :
        /\ outcome[h1] = "created"
        /\ outcome[h2] = "assigned"
        /\ website_id[h1] < website_id[h2]
        /\ replied_template[h2] # replied_template[h1]
        /\ LinkOf(h1) = {replied_template[h1]}
        /\ LinkOf(h2) = {replied_template[h2]}

\* C17: a template's website_count changes only in the step that ends the
\* assignment of a website to that template, and no step decreases it.
C17_CountMonotonic ==
    [][\A t \in templates : \A u \in templates' :
        u.id = t.id =>
            /\ u.website_count >= t.website_count
            /\ u.website_count # t.website_count =>
                \E h \in Handlers :
                    /\ pc[h] = "update_template_count_commit"
                    /\ similar_template_id[h] = t.id
                    /\ outcome'[h] = "assigned"]_vars

C19_UniqueUrl ==
    \A w1, w2 \in websites : w1.url = w2.url => w1.id = w2.id

C19_Witness ==
    \E h1, h2 \in Handlers :
        /\ h1 # h2
        /\ message[h1] = message[h2]
        /\ website_id[h1] # NULL
        /\ pc[h1] \in {"get_all_templates", "create_template_from_website",
                       "create_template_from_website_commit"}
        /\ Done(h2) /\ error[h2] = "IntegrityError"
        /\ Cardinality({w \in websites : w.url = message[h1]}) = 1

\* the website row the handler stored has a template
Classified(h) == \E w \in websites : w.id = website_id[h] /\ w.template_id # NULL

\* C20: every website row that handle_message stored gets a template_id
\* before that invocation of handle_message ends: no finished classification
\* leaves its stored row with template_id unset.
C20_PersistedIsClassified ==
    \A h \in Handlers : (Done(h) /\ website_id[h] # NULL) => Classified(h)

(***************************************************************************)
(* Properties of the scorer on empty and malformed inputs, and of each     *)
(* sub-metric.                                                             *)
(***************************************************************************)
EmptyInput(site) ==
    /\ site.dom_structure \in EmptyDoms
    /\ site.css_classes = <<>>
    /\ site.responsive_features.mediaQueries = <<>>

\* C21 as stated: calculate_similarity returns a number in [0,1] for every
\* pair of inputs, and a total of 0 when one input has all its structural
\* fields empty.
C21_EmptyIsZero ==
    spc # "start" =>
        /\ InUnit(simAB.total)
        /\ (EmptyInput(site1) \/ EmptyInput(site2)) => simAB.total = Zero

\* C21 amended: calculate_similarity returns a number in [0,1] for every pair
\* of inputs, 0 when a sub-metric raised; when one input has all its
\* structural fields empty, that input makes no sub-metric raise, the
\* structural, class and responsive sub-scores are 0 and the total is one
\* tenth of the layout-trace sub-score, which is 0 when the empty DOM is {}.
C21_EmptyDegrades ==
    spc # "start" =>
        /\ InUnit(simAB.total)
        /\ simAB.raised => simAB.total = Zero
        /\ (EmptyInput(site1) \/ EmptyInput(site2)) =>
            /\ simAB.raised <=> (~WellFormed(site1) \/ ~WellFormed(site2))
            /\ simAB.similarities.dom_similarity = Zero
            /\ simAB.similarities.css_similarity = Zero
            /\ simAB.similarities.responsive_similarity = Zero
            /\ simAB.total[1] * 10 * simAB.similarities.layout_similarity[2]
                    = simAB.similarities.layout_similarity[1] * simAB.total[2]
            /\ (EmptyDict \in {site1.dom_structure, site2.dom_structure}) =>
                    simAB.total = Zero

C21_Witness ==
    /\ spc = "scored"
    /\ EmptyInput(site1)
    /\ EmptyInput(site2)
    /\ ~simAB.raised
    /\ simAB.total = Frac(1, 10)

\* the views of a feature vector that the sub-metrics compare
LayoutClasses(site) == filter_layout_classes(site.css_classes)

Breakpoints(site) ==
    IF site.responsive_features.truthy
    THEN extract_breakpoints(site.responsive_features.mediaQueries)
    ELSE {}

Trace(site) == get_layout_structure(site.dom_structure)

\* C22: the class sub-score is 0 whenever either side's layout-class set is
\* empty, the responsive sub-score is 0 whenever either side's breakpoint set
\* is empty, and the layout-trace sub-score is 0 whenever either side's trace
\* is empty.
C22_EmptySetDegradation ==
    spc # "start" =>
        /\ (LayoutClasses(site1) = {} \/ LayoutClasses(site2) = {}) =>
                simAB.similarities.css_similarity = Zero
        /\ (Breakpoints(site1) = {} \/ Breakpoints(site2) = {}) =>
                simAB.similarities.responsive_similarity = Zero
        /\ (Trace(site1) = <<>> \/ Trace(site2) = <<>>) =>
                simAB.similarities.layout_similarity = Zero

C22_Witness ==
    /\ spc = "scored"
    /\ ~simAB.raised
    /\ LayoutClasses(site1) = {} /\ LayoutClasses(site2) # {}
    /\ Breakpoints(site1) = {} /\ Breakpoints(site2) # {}
    /\ Trace(site1) = <<>> /\ Trace(site2) # <<>>
    /\ simAB.total = Zero

\* the subsequences of a sequence
RECURSIVE Subsequences(_)
Subsequences(s) ==
    IF s = <<>> THEN {<<>>}
    ELSE LET rest == Subsequences(Tail(s))
         IN  rest \cup {<<Head(s)>> \o t : t \in rest}

\* the length of a longest common subsequence
LCS(s, t) ==
    LET common == Subsequences(s) \cap Subsequences(t)
    IN  CHOOSE n \in 0..Len(s) :
            /\ \E c \in common : Len(c) = n
            /\ \A c \in common : Len(c) <= n

LayoutSequence(site) == get_layout_sequence(site.dom_structure)

\* C23: the structural sub-score is 2*|LCS(seq1, seq2)| / (len(seq1) +
\* len(seq2)) with LCS the longest common subsequence of the two layout
\* sequences, and 0 when both sequences are empty.
C23_StructuralIsLCS ==
    (spc # "start" /\ ~simAB.raised) =>
        \A seq1 \in {LayoutSequence(site1)} : \A seq2 \in {LayoutSequence(site2)} :
            simAB.similarities.dom_similarity =
                IF seq1 = <<>> /\ seq2 = <<>> THEN Zero
                ELSE Frac(2 * LCS(seq1, seq2), Len(seq1) + Len(seq2))

C23_Witness ==
    /\ spc = "scored"
    /\ ~simAB.raised
    /\ \E n \in {LCS(LayoutSequence(site1), LayoutSequence(site2))} :
        /\ 0 < n
        /\ n < Len(LayoutSequence(site1))
        /\ n < Len(LayoutSequence(site2))
        /\ simAB.similarities.dom_similarity =
                Frac(2 * n, Len(LayoutSequence(site1)) + Len(LayoutSequence(site2)))

\* C24: for non-empty breakpoint sets A and B the responsive sub-score is the
\* number of elements x of A for which some y in B has |x - y| <= 100,
\* divided by max(|A|, |B|).
C24_ResponsiveIsMatchedShare ==
    (spc # "start" /\ ~simAB.raised) =>
        \A A \in {Breakpoints(site1)} : \A B \in {Breakpoints(site2)} :
            (A # {} /\ B # {}) =>
                \E matched \in {{x \in A : \E y \in B : x - y <= 100 /\ y - x <= 100}} :
                    simAB.similarities.responsive_similarity =
                        Frac(Cardinality(matched),
                             IF Cardinality(A) >= Cardinality(B)
                             THEN Cardinality(A) ELSE Cardinality(B))

C24_Witness ==
    /\ spc = "scored"
    /\ ~simAB.raised
    /\ \E x \in Breakpoints(site1) : \E y \in Breakpoints(site2) : y - x = 100
    /\ \E x \in Breakpoints(site1) : \A y \in Breakpoints(site2) : x - y > 100
    /\ Cardinality(Breakpoints(site1)) > Cardinality(Breakpoints(site2))
    /\ simAB.similarities.responsive_similarity = Frac(1, 2)

\* In a depth-first trace whose entries carry their child counts, the last
\* position of the subtree that starts at position j, and the position of
\* the immediate ancestor of position i.
RECURSIVE SubtreeEnd(_, _)
RECURSIVE AfterSubtrees(_, _, _)
SubtreeEnd(tr, j) == AfterSubtrees(tr, j + 1, tr[j][3]) - 1
AfterSubtrees(tr, k, c) ==
    IF c = 0 THEN k ELSE AfterSubtrees(tr, SubtreeEnd(tr, k) + 1, c - 1)

ParentPosition(tr, i) ==
    CHOOSE j \in 1..(i - 1) :
        /\ SubtreeEnd(tr, j) >= i
        /\ \A k \in (j + 1)..(i - 1) : SubtreeEnd(tr, k) < i

TraceShape(tr) ==
    tr # <<>> =>
        /\ tr[1][1] = "root"
        /\ SubtreeEnd(tr, 1) = Len(tr)
        /\ \A i \in 2..Len(tr) : tr[i][1] = tr[ParentPosition(tr, i)][2]

\* C25: the layout-trace sub-score compares the two depth-first traces
\* position by position up to min(len1, len2), counts a position as a match
\* only when parent layout type and own layout type are equal and the child
\* counts differ by at most 2, and is matches / max(len1, len2); the root's
\* parent type is 'root' and each child's parent type is the layout type of
\* its immediate ancestor.
C25_LayoutTrace ==
    (spc # "start" /\ ~simAB.raised) =>
        \A t1 \in {Trace(site1)} : \A t2 \in {Trace(site2)} :
            /\ TraceShape(t1)
            /\ TraceShape(t2)
            /\ (t1 # <<>> /\ t2 # <<>>) =>
                LET shorter == IF Len(t1) <= Len(t2) THEN Len(t1) ELSE Len(t2)
                    longer  == IF Len(t1) <= Len(t2) THEN Len(t2) ELSE Len(t1)
                    match(i) == /\ t1[i][1] = t2[i][1]
                                /\ t1[i][2] = t2[i][2]
                                /\ t1[i][3] - t2[i][3] <= 2
                                /\ t2[i][3] - t1[i][3] <= 2
                IN  simAB.similarities.layout_similarity =
                        Frac(Cardinality({i \in 1..shorter : match(i)}), longer)

\* a position whose types agree and whose child counts differ by 3
C25_Witness ==
    /\ spc = "scored"
    /\ ~simAB.raised
    /\ site1.dom_structure = WideDom
    /\ site2.dom_structure = Leaf("div")
    /\ Trace(site1)[1] = <<"root", "container", 3>>
    /\ Trace(site2)[1] = <<"root", "container", 0>>
    /\ simAB.similarities.layout_similarity = Zero
    /\ simBA = NoResult

\* The nodes of a tree as paths of child indices from the root; document
\* order is the lexicographic order of the paths, a node before its
\* descendants.
RECURSIVE Paths(_)
Paths(node) ==
    {<<>>} \cup UNION {{<<i>> \o p : p \in Paths(node.children[i])} :
                            i \in 1..Len(node.children)}

RECURSIVE NodeAt(_, _)
NodeAt(node, p) ==
    IF p = <<>> THEN node ELSE NodeAt(node.children[Head(p)], Tail(p))

Before(p, q) ==
    \/ /\ Len(p) < Len(q)
       /\ \A k \in 1..Len(p) : p[k] = q[k]
    \/ \E k \in 1..Min(Len(p), Len(q)) :
        /\ p[k] < q[k]
        /\ \A m \in 1..(k - 1) : p[m] = q[m]

StructuralPaths(dom) == {p \in Paths(dom) : NodeAt(dom, p).tag \in important_tags}

\* C26: the layout sequence of a DOM tree holds, in depth-first document
\* order, exactly one token (depth, tag) for every node whose tag is one of
\* div, section, main, header, footer, nav, aside, the root being at depth 0;
\* a node with another tag gives no token and its descendants are visited
\* at their true depth.
C26_LayoutSequence ==
    (spc # "start" /\ IsNode(site1.dom_structure)) =>
        \A seq \in {LayoutSequence(site1)} :
        \A nodes \in {StructuralPaths(site1.dom_structure)} :
            /\ Len(seq) = Cardinality(nodes)
            /\ \A p \in nodes :
                seq[Cardinality({q \in nodes : Before(q, p)}) + 1]
                    = <<Len(p), NodeAt(site1.dom_structure, p).tag>>

C26_Witness ==
    /\ spc = "scored"
    /\ site1.dom_structure = Node("span", <<Node("span", <<Leaf("div")>>)>>)
    /\ LayoutSequence(site1) = <<<<2, "div">>>>
    /\ Len(LayoutSequence(site2)) = 4

(***************************************************************************)
(* The example scenario: site A is the only template, site B arrives.      *)
(***************************************************************************)
\* the handler classifies page B against a list that holds only page A
ExampleCase(h) ==
    /\ threshold = 40
    /\ features[h].page = "B"
    /\ Len(scanned[h]) = 1
    /\ scanned[h][1][2].obj.page = "A"
    /\ (AssignPath(h) \/ CreatePath(h))

\* C27: for the example sites A and B the structural sub-score is 1, the
\* class sub-score is 1/3 and the responsive sub-score is 1; with threshold
\* 0.4 and A as the only template, B is assigned to A's template.
C27_ExampleScenario ==
    \A h \in Handlers :
        ExampleCase(h) =>
            \E r \in {Similarity(features[h], scanned[h][1][2].obj)} :
                /\ ~r.raised
                /\ r.similarities.dom_similarity = One
                /\ r.similarities.css_similarity = Frac(1, 3)
                /\ r.similarities.responsive_similarity = One
                /\ FLe(<<threshold, 100>>, r.total)
                /\ AssignPath(h)
                /\ similar_template_id[h] = scanned[h][1][1]
                /\ outcome[h] = "assigned" =>
                        /\ replied_template[h] = scanned[h][1][1]
                        /\ LinkOf(h) = {scanned[h][1][1]}

C27_Witness ==
    \E h \in Handlers :
        /\ ExampleCase(h)
        /\ outcome[h] = "assigned"
        /\ LinkOf(h) = {scanned[h][1][1]}
        /\ LayoutSequence(PageFeatures("A"))
                = <<<<0, "div">>, <<1, "header">>, <<1, "main">>, <<2, "section">>>>
        /\ LayoutSequence(PageFeatures("B")) = LayoutSequence(PageFeatures("A"))
        /\ LayoutClasses(PageFeatures("A")) = {cls_container, cls_header_bar}
        /\ LayoutClasses(PageFeatures("B")) = {cls_container, cls_footer_bar}
        /\ Breakpoints(PageFeatures("A")) = {768, 1024}
        /\ Breakpoints(PageFeatures("B")) = {780, 1024}

(***************************************************************************)
(* Messages that never reach the store.                                    *)
(***************************************************************************)
\* the handler has just read its message and is past lines 115-127
Received(h) == pc[h] = "idle" /\ pc'[h] # "idle"

\* C28: when the message is not a URL with both scheme and host, or
\* analyze_url returns None, handle_message replies and returns with the
\* store unchanged: no website record, no template, no link and no count is
\* written, then or later.
C28_NoVectorNoWrite ==
    [][\A h \in Handlers :
        /\ Received(h) =>
            /\ (message'[h].scheme = "" \/ message'[h].netloc = "") =>
                    /\ outcome'[h] = "invalid"
                    /\ UNCHANGED storeVars
            /\ (message'[h].scheme # "" /\ message'[h].netloc # ""
                    /\ analyze_url(message'[h]) = NoFeatures) =>
                    /\ outcome'[h] = "unanalyzable"
                    /\ UNCHANGED storeVars
        /\ outcome'[h] \in {"invalid", "unanalyzable"} =>
            /\ pc'[h] = "done"
            /\ website_id'[h] = NULL
            /\ replied_template'[h] = NULL
            /\ \A w \in websites' : w.url # message'[h]
      ]_vars

C28_Witness ==
    \E h1, h2 \in Handlers :
        /\ message[h1] = NoHost
        /\ outcome[h1] = "invalid"
        /\ message[h2] = U6
        /\ outcome[h2] = "unanalyzable"
        /\ websites = {}
        /\ templates = {}

(***************************************************************************)
(* The store when no classification is in flight.                          *)
(***************************************************************************)
\* no handle_message is between its first and its last step
Quiescent == \A h \in Handlers : pc[h] \in {"idle", "done"}

\* C29: after an interleaving in which no store operation failed, once every
\* in-flight handle_message has completed, each template's website_count
\* equals the number of website records linked to it.
C29_QuiescentCounts ==
    (Quiescent /\ failures = 0 /\ \A h \in Handlers : outcome[h] # "error") =>
        \A t \in templates : t.website_count = Cardinality(Linked(t.id))

(***************************************************************************)
(* The Database with the two methods that handle_message never calls:      *)
(* cleanup_old_records, run by whoever maintains the database file, and    *)
(* create_template.  The clock is in days.                                 *)
(***************************************************************************)
cleanup_days == 30

MaxClock       == 31   \* the clock stops here
MaxTemplateIds == 1    \* create_template runs while fewer ids were issued

\* more than cleanup_days pass
tick ==
    /\ now + cleanup_days + 1 <= MaxClock
    /\ now' = now + cleanup_days + 1
    /\ UNCHANGED <<scorerVars, threshold, storeVars, pc, localVars, replyVars, failures>>

\* DELETE FROM websites WHERE last_updated_at < datetime('now', '-30 days')
cleanup_old_records ==
    /\ websites' = {w \in websites : ~(w.last_updated_at < now - cleanup_days)}
    /\ UNCHANGED <<scorerVars, threshold, templates, seq_websites, seq_templates, now,
                   pc, localVars, replyVars, failures>>

\* INSERT INTO templates (..., website_count, feature_summary, ...) VALUES (..., 1, ?, ...)
create_template(feature_summary) ==
    /\ seq_templates < MaxTemplateIds
    /\ seq_templates' = seq_templates + 1
    /\ templates' = templates \cup
            {[id |-> seq_templates + 1, website_count |-> 1,
              feature_summary |-> json_dumps(feature_summary)]}
    /\ UNCHANGED <<scorerVars, threshold, websites, seq_websites, now,
                   pc, localVars, replyVars, failures>>

\* the two sites that are classified while the database is maintained
DbMessages == {U1, U2}

receive_message_db(h) == receive(h, DbMessages)

NextDb ==
    \/ \E h \in Handlers :
        \/ receive_message_db(h)
        \/ add_website(h)
        \/ scan_templates(h)
        \/ scan_templates_failed(h)
        \/ update_website_template(h)
        \/ update_template_count_select(h)
        \/ update_template_count_commit(h)
        \/ create_template_from_website_select(h)
        \/ create_template_from_website_commit(h)
        \/ store_fails(h)
    \/ tick
    \/ cleanup_old_records
    \/ create_template(Features(U1, "A"))

SpecDb == Init /\ [][NextDb]_vars

\* C30: every row of the templates table has at least one website record
\* linked to it, and get_all_templates returns each existing template
\* exactly once.
C30_TemplatesHaveMembers ==
    \A t \in templates :
        /\ Linked(t.id) # {}
        /\ \A list \in get_all_templates :
                Cardinality({i \in 1..Len(list) : list[i][1] = t.id}) = 1

(***************************************************************************)
(* A store that holds the templates of pages A and P; the sites that       *)
(* arrive serve the same pages under other URLs.  The threshold may also   *)
(* be 1.0.                                                                 *)
(***************************************************************************)
MirrorMessages == {U10, U11}

MirrorThresholds == Thresholds \cup {100}

InitMirror ==
    /\ InitScorerOff
    /\ threshold \in MirrorThresholds
    /\ websites = {[id |-> 1, url |-> U1, template_id |-> 1,
                    features |-> json_dumps(analyze_url(U1)), last_updated_at |-> 0],
                   [id |-> 2, url |-> U7, template_id |-> 2,
                    features |-> json_dumps(analyze_url(U7)), last_updated_at |-> 0]}
    /\ templates = {[id |-> 1, website_count |-> 1,
                     feature_summary |-> json_dumps(analyze_url(U1))],
                    [id |-> 2, website_count |-> 1,
                     feature_summary |-> json_dumps(analyze_url(U7))]}
    /\ seq_websites = 2
    /\ seq_templates = 2
    /\ now = 0
    /\ InitHandlers

receive_message_mirror(h) == receive(h, MirrorMessages)

NextMirror ==
    \E h \in Handlers :
        \/ receive_message_mirror(h)
        \/ add_website(h)
        \/ scan_templates(h)
        \/ scan_templates_failed(h)
        \/ update_website_template(h)
        \/ update_template_count_select(h)
        \/ update_template_count_commit(h)
        \/ create_template_from_website_select(h)
        \/ create_template_from_website_commit(h)
        \/ store_fails(h)

SpecMirror == InitMirror /\ [][NextMirror]_vars

\* the scanned list holds a template whose representative has the features
\* of the handler's site, under another URL
IdenticalScanned(h) ==
    \E i \in 1..Len(scanned[h]) :
        /\ scanned[h][i][2].obj.page = features[h].page
        /\ scanned[h][i][2].obj.url # features[h].url

References ==
    /\ \A w \in websites :
        w.template_id # NULL => \E t \in templates : t.id = w.template_id
    /\ \A t, u \in templates : t.id = u.id => t = u
    /\ \A t \in templates : t.id \in 1..seq_templates

\* a templates row keeps its id and its representative, and a new row gets
\* an id that no row had before
IdsKept ==
    /\ \A t \in templates : \E u \in templates' :
        u.id = t.id /\ u.feature_summary = t.feature_summary
    /\ \A u \in templates' :
        (\A t \in templates : t.id # u.id) => u.id > seq_templates
    /\ seq_templates' >= seq_templates

\* C32: every website record with a non-null template_id refers to a row
\* that exists in the templates table, and a template id is never reused for
\* a different template.
C32_ReferentialIntegrity == []References /\ [][IdsKept]_vars

C32_Witness ==
    /\ Cardinality(templates) = 2
    /\ \E w \in websites : w.template_id = 2
    /\ \E t \in templates : t.id = 1 /\ Linked(1) = {}
    /\ now > cleanup_days

====
